---- MODULE Spec2Model ----
(***************************************************************************)
(* Model of inertia_tensor_per_object_engine (src/unnamed/part_000): the   *)
(* dual-grid pair search that accumulates, for every primary point, the    *)
(* weighted second-moment tensor and the weight sum of the secondary       *)
(* points inside the smoothing radius.                                     *)
(*                                                                         *)
(* Coordinates, weights, periods and lengths are exact integers (a fixed   *)
(* number of length units per cell), arrays are functions on 0..n-1 so     *)
(* that every index is the index the code uses.                            *)
(***************************************************************************)
EXTENDS Integers, Sequences, FiniteSets, TLC

VARIABLES
    x1in, y1in, z1in,          \* coordinates of sample 1, caller's order
    x2in, y2in, z2in,          \* coordinates of sample 2, caller's order
    weights2in,                \* weights of sample 2, caller's order
    rsmooth,                   \* smoothing radius
    calls,                     \* calls still to be made: <<[double_mesh, cell1_tuple], ...>>
    double_mesh,               \* double mesh of the call in progress
    cell1_tuple,               \* <<first, last>> of the call in progress
    returned,                  \* what each finished call returned
    pc,                        \* position of the engine
    icell1, ifirst1, ilast1,   \* primary cell and its point range
    ix1, iy1, iz1,             \* decoded primary cell coordinate
    nonPBC_ix2, nonPBC_iy2, nonPBC_iz2,   \* unwrapped secondary cell coordinate
    ix2, iy2, iz2, icell2,     \* wrapped secondary cell coordinate and id
    x2shift, y2shift, z2shift, \* periodic shifts of the current secondary cell
    ifirst2, ilast2,           \* secondary cell point range
    i, j,                      \* point loops
    dx, dy, dz, dsq, w2,       \* last evaluated pair
    inertia_tensor,            \* (npts1, 3, 3) accumulator, sorted order
    sum_weights                \* (npts1) accumulator, sorted order

inputs == <<x1in, y1in, z1in, x2in, y2in, z2in, weights2in, rsmooth>>
cell1_locals == <<icell1, ifirst1, ilast1, ix1, iy1, iz1>>
cell2_locals == <<nonPBC_ix2, nonPBC_iy2, nonPBC_iz2, ix2, iy2, iz2, icell2,
                  x2shift, y2shift, z2shift, ifirst2, ilast2>>
pair_locals == <<i, j, dx, dy, dz, dsq, w2>>
accumulators == <<inertia_tensor, sum_weights>>
vars == <<inputs, calls, double_mesh, cell1_tuple, returned, pc, cell1_locals,
          cell2_locals, pair_locals, accumulators>>

----------------------------------------------------------------------------
(* Arrays *)

Len0(arr) == Cardinality(DOMAIN arr)

\* arr[idx]: numpy indexing of an array by an index array
Take(arr, idx) == [k \in DOMAIN idx |-> arr[idx[k]]]

Zeros3x3 == [a \in 0..2 |-> [b \in 0..2 |-> 0]]

RECURSIVE SumOver(_, _)
SumOver(f, S) ==
    IF S = {} THEN 0
    ELSE LET e == CHOOSE e \in S : TRUE IN f[e] + SumOver(f, S \ {e})

----------------------------------------------------------------------------
(* The grids (RectangularDoubleMesh), which the engine only reads *)

\* linear cell id of a point in a grid: row-major over (num_ydivs, num_zdivs)
CellIdOf(x, y, z, m) ==
    (x \div m.xcell_size) * (m.num_ydivs * m.num_zdivs)
        + (y \div m.ycell_size) * m.num_zdivs + (z \div m.zcell_size)

\* the permutations of 0..n-1 that put the points in order of cell id
SortPermutations(cellid) ==
    LET n == Len0(cellid) IN
    {p \in [0..(n-1) -> 0..(n-1)] :
        /\ \A a, b \in 0..(n-1) : a # b => p[a] # p[b]
        /\ \A a, b \in 0..(n-1) : a < b => cellid[p[a]] <= cellid[p[b]]}

\* cell_id_indices[c] .. cell_id_indices[c+1] is the sorted range of cell c
CellIdIndices(cellid, ncells) ==
    [c \in 0..ncells |-> Cardinality({k \in DOMAIN cellid : cellid[k] < c})]

RectangularMesh(x, y, z, divs, period, perm) ==
    LET shape == [num_xdivs |-> divs[1], num_ydivs |-> divs[2], num_zdivs |-> divs[3],
                  xcell_size |-> period[1] \div divs[1],
                  ycell_size |-> period[2] \div divs[2],
                  zcell_size |-> period[3] \div divs[3]]
        cellid == [k \in DOMAIN x |-> CellIdOf(x[k], y[k], z[k], shape)]
        ncells == divs[1] * divs[2] * divs[3]
    IN  [num_xdivs |-> shape.num_xdivs, num_ydivs |-> shape.num_ydivs,
         num_zdivs |-> shape.num_zdivs,
         xcell_size |-> shape.xcell_size, ycell_size |-> shape.ycell_size,
         zcell_size |-> shape.zcell_size,
         ncells |-> ncells,
         idx_sorted |-> perm,
         cell_id_indices |-> CellIdIndices(cellid, ncells)]

\* inverse permutation: original[k] = sorted[unsorting_indices(p)[k]]
unsorting_indices(p) == [k \in DOMAIN p |-> CHOOSE s \in DOMAIN p : p[s] = k]

----------------------------------------------------------------------------
(* Set-up of one call *)

rsmooth_squared == rsmooth * rsmooth
xperiod == double_mesh.xperiod
yperiod == double_mesh.yperiod
zperiod == double_mesh.zperiod
first_cell1_element == cell1_tuple[1]
last_cell1_element == cell1_tuple[2]
PBCs == double_mesh.PBCs
Ncell1 == double_mesh.mesh1.ncells

x1_sorted == Take(x1in, double_mesh.mesh1.idx_sorted)
y1_sorted == Take(y1in, double_mesh.mesh1.idx_sorted)
z1_sorted == Take(z1in, double_mesh.mesh1.idx_sorted)
x2_sorted == Take(x2in, double_mesh.mesh2.idx_sorted)
y2_sorted == Take(y2in, double_mesh.mesh2.idx_sorted)
z2_sorted == Take(z2in, double_mesh.mesh2.idx_sorted)
w2_sorted == Take(weights2in, double_mesh.mesh2.idx_sorted)

npts1 == Len0(x1_sorted)
cell1_indices == double_mesh.mesh1.cell_id_indices
cell2_indices == double_mesh.mesh2.cell_id_indices

\* int(np.ceil(search_length / cell_size)) on positive lengths
CoveringSteps(search_length, cell_size) == (search_length + cell_size - 1) \div cell_size

num_x2_covering_steps ==
    CoveringSteps(double_mesh.search_xlength, double_mesh.mesh2.xcell_size)
num_y2_covering_steps ==
    CoveringSteps(double_mesh.search_ylength, double_mesh.mesh2.ycell_size)
num_z2_covering_steps ==
    CoveringSteps(double_mesh.search_zlength, double_mesh.mesh2.zcell_size)

num_x1divs == double_mesh.mesh1.num_xdivs
num_y1divs == double_mesh.mesh1.num_ydivs
num_z1divs == double_mesh.mesh1.num_zdivs
num_x2divs == double_mesh.mesh2.num_xdivs
num_y2divs == double_mesh.mesh2.num_ydivs
num_z2divs == double_mesh.mesh2.num_zdivs
num_x2_per_x1 == num_x2divs \div num_x1divs
num_y2_per_y1 == num_y2divs \div num_y1divs
num_z2_per_z1 == num_z2divs \div num_z1divs

----------------------------------------------------------------------------
(* Index arithmetic of the cell loops *)

DecodeX1(c) == c \div (num_y1divs * num_z1divs)
DecodeY1(c) == (c - DecodeX1(c) * num_y1divs * num_z1divs) \div num_z1divs
DecodeZ1(c) == c - (DecodeX1(c) * num_y1divs * num_z1divs) - (DecodeY1(c) * num_z1divs)

Leftmost(i1, per, steps) == i1 * per - steps
Rightmost(i1, per, steps) == (i1 + 1) * per + steps

leftmost_ix2 == Leftmost(ix1, num_x2_per_x1, num_x2_covering_steps)
leftmost_iy2 == Leftmost(iy1, num_y2_per_y1, num_y2_covering_steps)
leftmost_iz2 == Leftmost(iz1, num_z2_per_z1, num_z2_covering_steps)
rightmost_ix2 == Rightmost(ix1, num_x2_per_x1, num_x2_covering_steps)
rightmost_iy2 == Rightmost(iy1, num_y2_per_y1, num_y2_covering_steps)
rightmost_iz2 == Rightmost(iz1, num_z2_per_z1, num_z2_covering_steps)

\* Shift with the two signs exchanged
ShiftSignsExchanged(n, num_divs, period, pbcs) ==
    IF n < 0 THEN period * pbcs
    ELSE IF n >= num_divs THEN -period * pbcs
    ELSE 0

\* the shift of a secondary cell reached at unwrapped index n
Shift(n, num_divs, period, pbcs) ==
    IF n < 0 THEN -period * pbcs
    ELSE IF n >= num_divs THEN period * pbcs
    ELSE 0

\* the remainder of C, which has the sign of the dividend
WrapIndexTruncating(n, num_divs) ==
    IF n < 0 THEN -((-n) % num_divs) ELSE n % num_divs

\* n % num_divs with the sign of the divisor (cdivision is off)
WrapIndex(n, num_divs) == n % num_divs

Flatten2(a, b, c) == a * (num_y2divs * num_z2divs) + b * num_z2divs + c

----------------------------------------------------------------------------
(* The engine, one action per loop step *)

ZeroLocals ==
    /\ ifirst1' = 0 /\ ilast1' = 0 /\ ix1' = 0 /\ iy1' = 0 /\ iz1' = 0
    /\ nonPBC_ix2' = 0 /\ nonPBC_iy2' = 0 /\ nonPBC_iz2' = 0
    /\ ix2' = 0 /\ iy2' = 0 /\ iz2' = 0 /\ icell2' = 0
    /\ x2shift' = 0 /\ y2shift' = 0 /\ z2shift' = 0
    /\ ifirst2' = 0 /\ ilast2' = 0
    /\ i' = 0 /\ j' = 0 /\ dx' = 0 /\ dy' = 0 /\ dz' = 0 /\ dsq' = 0 /\ w2' = 0

\* entry of a call: the arguments are bound, the accumulators are zeroed
Call ==
    /\ pc = "idle"
    /\ calls # << >>
    /\ double_mesh' = Head(calls).double_mesh
    /\ cell1_tuple' = Head(calls).cell1_tuple
    /\ calls' = Tail(calls)
    /\ inertia_tensor' = [k \in DOMAIN x1in |-> Zeros3x3]
    /\ sum_weights' = [k \in DOMAIN x1in |-> 0]
    /\ icell1' = Head(calls).cell1_tuple[1]
    /\ ZeroLocals
    /\ pc' = "cell1"
    /\ UNCHANGED <<inputs, returned>>

\* a primary cell whose range [f, l) was read: decode it and open its window
EnterCell1(f, l) ==
    /\ UNCHANGED <<inputs, calls, double_mesh, cell1_tuple, returned, pair_locals,
                   accumulators, ix2, iy2, iz2, icell2, x2shift, y2shift, z2shift,
                   ifirst2, ilast2>>
    /\ ifirst1' = f
    /\ ilast1' = l
    /\ IF l - f > 0
       THEN /\ ix1' = DecodeX1(icell1)
            /\ iy1' = DecodeY1(icell1)
            /\ iz1' = DecodeZ1(icell1)
            /\ IF /\ leftmost_ix2' < rightmost_ix2'
                  /\ leftmost_iy2' < rightmost_iy2'
                  /\ leftmost_iz2' < rightmost_iz2'
               THEN /\ nonPBC_ix2' = leftmost_ix2'
                    /\ nonPBC_iy2' = leftmost_iy2'
                    /\ nonPBC_iz2' = leftmost_iz2'
                    /\ pc' = "cell2"
                    /\ UNCHANGED icell1
               ELSE /\ icell1' = icell1 + 1
                    /\ pc' = "cell1"
                    /\ UNCHANGED <<nonPBC_ix2, nonPBC_iy2, nonPBC_iz2>>
       ELSE /\ icell1' = icell1 + 1
            /\ pc' = "cell1"
            /\ UNCHANGED <<ix1, iy1, iz1, nonPBC_ix2, nonPBC_iy2, nonPBC_iz2>>

\* range(first, last) with its end included
InCell1RangeInclusive(c) == c <= last_cell1_element

\* whether range(first_cell1_element, last_cell1_element) still yields c
InCell1Range(c) == c < last_cell1_element

\* both reads of cell1_indices fall inside the array
Cell1ReadInBounds == icell1 \in DOMAIN cell1_indices /\ icell1 + 1 \in DOMAIN cell1_indices

\* for icell1 in range(first, last): one iteration's head
Cell1Loop ==
    /\ pc = "cell1"
    /\ InCell1Range(icell1)
    /\ Cell1ReadInBounds
    /\ EnterCell1(cell1_indices[icell1], cell1_indices[icell1 + 1])

\* the range is exhausted
Cell1LoopExit ==
    /\ pc = "cell1"
    /\ ~InCell1Range(icell1)
    /\ pc' = "unsort"
    /\ UNCHANGED <<inputs, calls, double_mesh, cell1_tuple, returned, cell1_locals,
                   cell2_locals, pair_locals, accumulators>>

\* what an unchecked read outside cell1_indices can deliver
StrayValues == (-1)..(npts1 + 1)

\* boundscheck is off: a read of cell1_indices outside the array is not detected.
\* The process is killed, or the read delivers whatever lies there; a delivered
\* range that is empty is skipped, one that lies inside the point arrays is
\* processed as if it were the cell's, any other one makes the slices and the
\* accumulator writes stray as well and ends the process.
Cell1LoopStray ==
    /\ pc = "cell1"
    /\ InCell1Range(icell1)
    /\ ~Cell1ReadInBounds
    /\ \E f \in (IF icell1 \in DOMAIN cell1_indices THEN {cell1_indices[icell1]}
                 ELSE StrayValues),
          l \in (IF icell1 + 1 \in DOMAIN cell1_indices THEN {cell1_indices[icell1 + 1]}
                 ELSE StrayValues),
          killed \in BOOLEAN :
            IF killed \/ (l - f > 0 /\ ~(0 <= f /\ l <= npts1))
            THEN /\ pc' = "killed"
                 /\ UNCHANGED <<inputs, calls, double_mesh, cell1_tuple, returned,
                                cell1_locals, cell2_locals, pair_locals, accumulators>>
            ELSE EnterCell1(f, l)

\* the next cell of the window, or the next primary cell when the window is done
NextCell2 ==
    IF nonPBC_iz2 + 1 < rightmost_iz2
    THEN /\ nonPBC_iz2' = nonPBC_iz2 + 1
         /\ pc' = "cell2"
         /\ UNCHANGED <<nonPBC_ix2, nonPBC_iy2, icell1>>
    ELSE IF nonPBC_iy2 + 1 < rightmost_iy2
    THEN /\ nonPBC_iy2' = nonPBC_iy2 + 1
         /\ nonPBC_iz2' = leftmost_iz2
         /\ pc' = "cell2"
         /\ UNCHANGED <<nonPBC_ix2, icell1>>
    ELSE IF nonPBC_ix2 + 1 < rightmost_ix2
    THEN /\ nonPBC_ix2' = nonPBC_ix2 + 1
         /\ nonPBC_iy2' = leftmost_iy2
         /\ nonPBC_iz2' = leftmost_iz2
         /\ pc' = "cell2"
         /\ UNCHANGED icell1
    ELSE /\ icell1' = icell1 + 1
         /\ pc' = "cell1"
         /\ UNCHANGED <<nonPBC_ix2, nonPBC_iy2, nonPBC_iz2>>

\* body of the three window loops down to the test Nj > 0
Cell2Loop ==
    /\ pc = "cell2"
    /\ x2shift' = Shift(nonPBC_ix2, num_x2divs, xperiod, PBCs)
    /\ y2shift' = Shift(nonPBC_iy2, num_y2divs, yperiod, PBCs)
    /\ z2shift' = Shift(nonPBC_iz2, num_z2divs, zperiod, PBCs)
    /\ ix2' = WrapIndex(nonPBC_ix2, num_x2divs)
    /\ iy2' = WrapIndex(nonPBC_iy2, num_y2divs)
    /\ iz2' = WrapIndex(nonPBC_iz2, num_z2divs)
    /\ icell2' = Flatten2(ix2', iy2', iz2')
    /\ IF icell2' \in DOMAIN cell2_indices /\ icell2' + 1 \in DOMAIN cell2_indices
       THEN /\ ifirst2' = cell2_indices[icell2']
            /\ ilast2' = cell2_indices[icell2' + 1]
            /\ IF ilast2' - ifirst2' > 0
               THEN /\ i' = 0
                    /\ j' = 0
                    /\ pc' = "pair"
                    /\ UNCHANGED <<nonPBC_ix2, nonPBC_iy2, nonPBC_iz2, icell1>>
               ELSE /\ NextCell2
                    /\ UNCHANGED <<i, j>>
       ELSE \* an unchecked read outside cell2_indices
            /\ pc' = "killed"
            /\ UNCHANGED <<ifirst2, ilast2, i, j, nonPBC_ix2, nonPBC_iy2, nonPBC_iz2,
                           icell1>>
    /\ UNCHANGED <<inputs, calls, double_mesh, cell1_tuple, returned, ifirst1, ilast1,
                   ix1, iy1, iz1, dx, dy, dz, dsq, w2, accumulators>>

\* Accumulate with xz added where the second xy belongs
AccumulateMisplaced(t, ddx, ddy, ddz, w) ==
    LET xx == ddx * ddx * w
        yy == ddy * ddy * w
        zz == ddz * ddz * w
        xy == ddx * ddy * w
        xz == ddx * ddz * w
        yz == ddy * ddz * w
    IN  [t EXCEPT ![0][0] = @ + xx, ![1][1] = @ + yy, ![2][2] = @ + zz,
                  ![0][1] = @ + xy, ![1][0] = @ + xz,
                  ![0][2] = @ + xz, ![2][0] = @ + xz,
                  ![1][2] = @ + yz, ![2][1] = @ + yz]

\* the nine += on the tensor of one primary point
Accumulate(t, ddx, ddy, ddz, w) ==
    LET xx == ddx * ddx * w
        yy == ddy * ddy * w
        zz == ddz * ddz * w
        xy == ddx * ddy * w
        xz == ddx * ddz * w
        yz == ddy * ddz * w
    IN  [t EXCEPT ![0][0] = @ + xx, ![1][1] = @ + yy, ![2][2] = @ + zz,
                  ![0][1] = @ + xy, ![1][0] = @ + xy,
                  ![0][2] = @ + xz, ![2][0] = @ + xz,
                  ![1][2] = @ + yz, ![2][1] = @ + yz]

\* whether a pair at squared separation d is accumulated
InRange(d, rsq) == d < rsq

\* body of the j loop for the pair (i, j) of the current cells
PairLoop ==
    /\ pc = "pair"
    /\ LET Ni == ilast1 - ifirst1
           Nj == ilast2 - ifirst2
           x1tmp == x1_sorted[ifirst1 + i] - x2shift
           y1tmp == y1_sorted[ifirst1 + i] - y2shift
           z1tmp == z1_sorted[ifirst1 + i] - z2shift
           ndx == x1tmp - x2_sorted[ifirst2 + j]
           ndy == y1tmp - y2_sorted[ifirst2 + j]
           ndz == z1tmp - z2_sorted[ifirst2 + j]
           ndsq == ndx * ndx + ndy * ndy + ndz * ndz
           nw2 == w2_sorted[ifirst2 + j]
       IN  /\ dx' = ndx /\ dy' = ndy /\ dz' = ndz /\ dsq' = ndsq /\ w2' = nw2
           /\ IF InRange(ndsq, rsmooth_squared)
              THEN /\ inertia_tensor' =
                        [inertia_tensor EXCEPT
                            ![ifirst1 + i] = Accumulate(@, ndx, ndy, ndz, nw2)]
                   /\ sum_weights' = [sum_weights EXCEPT ![ifirst1 + i] = @ + nw2]
              ELSE UNCHANGED accumulators
           /\ IF j + 1 < Nj
              THEN /\ j' = j + 1
                   /\ UNCHANGED <<i, pc, nonPBC_ix2, nonPBC_iy2, nonPBC_iz2, icell1>>
              ELSE IF i + 1 < Ni
              THEN /\ i' = i + 1
                   /\ j' = 0
                   /\ UNCHANGED <<pc, nonPBC_ix2, nonPBC_iy2, nonPBC_iz2, icell1>>
              ELSE /\ NextCell2
                   /\ UNCHANGED <<i, j>>
    /\ UNCHANGED <<inputs, calls, double_mesh, cell1_tuple, returned, ifirst1, ilast1,
                   ix1, iy1, iz1, ix2, iy2, iz2, icell2, x2shift, y2shift, z2shift,
                   ifirst2, ilast2>>

\* the outputs indexed by the sort itself
UnsortRowsBySort(idx_sorted) == idx_sorted

\* the row of each output array that goes to original index k
UnsortRows(idx_sorted) == unsorting_indices(idx_sorted)

\* undo the sorting and hand both arrays back
Return ==
    /\ pc = "unsort"
    /\ LET idx_unsorted == UnsortRows(double_mesh.mesh1.idx_sorted)
       IN  returned' = Append(returned,
                [double_mesh |-> double_mesh,
                 cell1_tuple |-> cell1_tuple,
                 tensor |-> Take(inertia_tensor, idx_unsorted),
                 sum_weights |-> Take(sum_weights, idx_unsorted)])
    /\ pc' = "idle"
    /\ UNCHANGED <<inputs, calls, double_mesh, cell1_tuple, cell1_locals, cell2_locals,
                   pair_locals, accumulators>>

Next ==
    \/ Call
    \/ Cell1Loop
    \/ Cell1LoopExit
    \/ Cell1LoopStray
    \/ Cell2Loop
    \/ PairLoop
    \/ Return

----------------------------------------------------------------------------
(* The calls that are made *)

\* length units per secondary cell, on every axis
CellUnits == 4
\* divisions of the primary grid per axis, and primary cells in all
MaxDivs == 2
MaxCells1 == 4
\* secondary cells per primary cell on the refined axis
MaxRatio == 2
\* points per sample, and the largest weight
MaxPts == 2
MaxWeight == 2
\* the search length on the axis searched farthest, in secondary cells
MaxSteps == 2

Triples(n, most) ==
    {t \in (1..n) \X (1..n) \X (1..n) : t[1] * t[2] * t[3] <= most}

\* 1 on every axis, or v on one axis
OneAxis(v) == {<<1, 1, 1>>, <<v, 1, 1>>, <<1, v, 1>>, <<1, 1, v>>}

Times(a, b) == <<a[1] * b[1], a[2] * b[2], a[3] * b[3]>>
Scaled(k, a) == <<k * a[1], k * a[2], k * a[3]>>

\* the box of a double mesh with the given primary divisions and ratio
BoxOf(divs1, ratio) == Scaled(CellUnits, Times(divs1, ratio))

\* where the points of sample 1 and of sample 2 may lie in a box L
Places1(L) == <<<<0, 0, 0>>, <<L[1] - 1, L[2] - 1, L[3] - 1>>, <<L[1] - 1, 0, L[3] - 2>>>>
Places2(L) == <<<<1, 2, 3>>, <<L[1] - 1, L[2] - 2, 1>>, <<0, L[2] - 1, L[3] - 1>>>>

\* n points at consecutive places, from the place at offset start
Layout(places, start, n) ==
    [k \in 0..(n - 1) |-> places[((start + k) % Len(places)) + 1]]

Axis(layout, a) == [k \in DOMAIN layout |-> layout[k][a]]

CellIds(x, y, z, divs, L) ==
    LET shape == [num_ydivs |-> divs[2], num_zdivs |-> divs[3],
                  xcell_size |-> L[1] \div divs[1],
                  ycell_size |-> L[2] \div divs[2],
                  zcell_size |-> L[3] \div divs[3]]
    IN  [k \in DOMAIN x |-> CellIdOf(x[k], y[k], z[k], shape)]

\* the sort that keeps the caller's order inside a cell
StableSort(cellid) ==
    CHOOSE p \in SortPermutations(cellid) :
        \A a, b \in DOMAIN p : (a < b /\ cellid[p[a]] = cellid[p[b]]) => p[a] < p[b]

RectangularDoubleMesh(divs1, ratio, L, pbcs, search, perm1, perm2) ==
    [mesh1 |-> RectangularMesh(x1in, y1in, z1in, divs1, L, perm1),
     mesh2 |-> RectangularMesh(x2in, y2in, z2in, Times(divs1, ratio), L, perm2),
     xperiod |-> L[1], yperiod |-> L[2], zperiod |-> L[3],
     PBCs |-> pbcs,
     search_xlength |-> search[1], search_ylength |-> search[2],
     search_zlength |-> search[3]]

StableMesh(divs1, ratio, L, pbcs, search) ==
    RectangularDoubleMesh(divs1, ratio, L, pbcs, search,
        StableSort(CellIds(x1in, y1in, z1in, divs1, L)),
        StableSort(CellIds(x2in, y2in, z2in, Times(divs1, ratio), L)))

InitLocals ==
    /\ returned = << >>
    /\ pc = "idle"
    /\ icell1 = 0 /\ ifirst1 = 0 /\ ilast1 = 0 /\ ix1 = 0 /\ iy1 = 0 /\ iz1 = 0
    /\ nonPBC_ix2 = 0 /\ nonPBC_iy2 = 0 /\ nonPBC_iz2 = 0
    /\ ix2 = 0 /\ iy2 = 0 /\ iz2 = 0 /\ icell2 = 0
    /\ x2shift = 0 /\ y2shift = 0 /\ z2shift = 0
    /\ ifirst2 = 0 /\ ilast2 = 0
    /\ i = 0 /\ j = 0 /\ dx = 0 /\ dy = 0 /\ dz = 0 /\ dsq = 0 /\ w2 = 0
    /\ inertia_tensor = [k \in DOMAIN x1in |-> Zeros3x3]
    /\ sum_weights = [k \in DOMAIN x1in |-> 0]

\* the calls to make, the first of them bound
InitCalls(plan) ==
    /\ calls = plan
    /\ double_mesh = plan[1].double_mesh
    /\ cell1_tuple = plan[1].cell1_tuple
    /\ InitLocals

\* two samples of n1 and n2 points in the box L
InitSamples(L, n1, n2) ==
    \E s1 \in 0..2, s2 \in 0..2 :
        LET p1 == Layout(Places1(L), s1, n1)
            p2 == Layout(Places2(L), s2, n2)
        IN  /\ x1in = Axis(p1, 1) /\ y1in = Axis(p1, 2) /\ z1in = Axis(p1, 3)
            /\ x2in = Axis(p2, 1) /\ y2in = Axis(p2, 2) /\ z2in = Axis(p2, 3)
            /\ weights2in = [k \in 0..(n2 - 1) |-> 1 + ((s2 + k) % MaxWeight)]

\* one call over the whole primary grid
InitWhole ==
    \E divs1 \in Triples(MaxDivs, MaxCells1), ratio \in OneAxis(MaxRatio),
       pbcs \in {0, 1}, steps \in OneAxis(MaxSteps) :
        LET L == BoxOf(divs1, ratio) IN
        /\ InitSamples(L, MaxPts, MaxPts)
        /\ rsmooth \in (IF steps = <<1, 1, 1>> THEN {-CellUnits, CellUnits}
                        ELSE {CellUnits})
        /\ LET dm == StableMesh(divs1, ratio, L, pbcs, Scaled(CellUnits, steps))
           IN  InitCalls(<<[double_mesh |-> dm, cell1_tuple |-> <<0, dm.mesh1.ncells>>]>>)

\* the whole grid in two calls, split at m, and in one
InitSplit ==
    \E divs1 \in Triples(MaxDivs, MaxCells1), pbcs \in {0, 1} :
        LET L == BoxOf(divs1, <<1, 1, 1>>) IN
        /\ InitSamples(L, MaxPts, MaxPts)
        /\ rsmooth = CellUnits
        /\ LET dm == StableMesh(divs1, <<1, 1, 1>>, L, pbcs, Scaled(CellUnits, <<1, 1, 1>>))
               n == dm.mesh1.ncells
           IN  \E m \in 0..n :
                 InitCalls(<<[double_mesh |-> dm, cell1_tuple |-> <<0, m>>],
                             [double_mesh |-> dm, cell1_tuple |-> <<m, n>>],
                             [double_mesh |-> dm, cell1_tuple |-> <<0, n>>]>>)

\* three primary points (the fewest that a sort can permute in a way that is
\* not its own inverse) under the stable sort and under any sort of either grid
InitResorted ==
    \E divs1 \in Triples(MaxDivs, MaxDivs), pbcs \in {1} :
        LET L == BoxOf(divs1, <<1, 1, 1>>)
            search == Scaled(CellUnits, <<1, 1, 1>>)
        IN
        /\ InitSamples(L, 3, MaxPts)
        /\ rsmooth = CellUnits
        /\ \E perm1 \in SortPermutations(CellIds(x1in, y1in, z1in, divs1, L)),
              perm2 \in SortPermutations(CellIds(x2in, y2in, z2in, divs1, L)) :
             LET dm == StableMesh(divs1, <<1, 1, 1>>, L, pbcs, search)
                 dmp == RectangularDoubleMesh(divs1, <<1, 1, 1>>, L, pbcs, search,
                                              perm1, perm2)
                 whole == <<0, dm.mesh1.ncells>>
             IN  InitCalls(<<[double_mesh |-> dm, cell1_tuple |-> whole],
                             [double_mesh |-> dmp, cell1_tuple |-> whole]>>)

\* a cell range that need not lie inside the primary grid
InitAnyRange ==
    \E divs1 \in Triples(MaxDivs, MaxDivs), pbcs \in {0, 1} :
        LET L == BoxOf(divs1, <<1, 1, 1>>) IN
        /\ InitSamples(L, MaxPts, MaxPts)
        /\ rsmooth = CellUnits
        /\ LET dm == StableMesh(divs1, <<1, 1, 1>>, L, pbcs, Scaled(CellUnits, <<1, 1, 1>>))
               n == dm.mesh1.ncells
           IN  \E first \in (-1)..(n + 1), last \in (-1)..(n + 1) :
                 InitCalls(<<[double_mesh |-> dm, cell1_tuple |-> <<first, last>>]>>)

\* one primary point at (0,0,0), one secondary point at (1,0,0) of weight 2,
\* radius 2, no periodicity, one cell in each grid
InitOneCell ==
    /\ x1in = [k \in {0} |-> 0] /\ y1in = [k \in {0} |-> 0] /\ z1in = [k \in {0} |-> 0]
    /\ x2in = [k \in {0} |-> 1] /\ y2in = [k \in {0} |-> 0] /\ z2in = [k \in {0} |-> 0]
    /\ weights2in = [k \in {0} |-> 2]
    /\ rsmooth = 2
    /\ \E steps \in 1..MaxSteps :
         LET L == Scaled(CellUnits, <<1, 1, 1>>)
             dm == StableMesh(<<1, 1, 1>>, <<1, 1, 1>>, L, 0,
                              Scaled(CellUnits * steps, <<1, 1, 1>>))
         IN  InitCalls(<<[double_mesh |-> dm, cell1_tuple |-> <<0, 1>>]>>)

\* tenths of a length unit: period 10 along x, primary point at x = 0.5,
\* secondary point at x = 9.6 of weight 1, radius 1, periodic
WrapCase == [period |-> 100, x1 |-> 5, x2 |-> 96, radius |-> 10]
WrapPeriod == WrapCase.period
WrapX1 == WrapCase.x1
WrapX2 == WrapCase.x2
WrapRadius == WrapCase.radius

InitWrap ==
    /\ x1in = [k \in {0} |-> WrapX1] /\ y1in = [k \in {0} |-> 0] /\ z1in = [k \in {0} |-> 0]
    /\ x2in = [k \in {0} |-> WrapX2] /\ y2in = [k \in {0} |-> 0] /\ z2in = [k \in {0} |-> 0]
    /\ weights2in = [k \in {0} |-> 1]
    /\ rsmooth = WrapRadius
    /\ \E xdivs \in {1, 2, 5, 10}, ratio \in {1, 2} :
         LET L == Scaled(WrapPeriod, <<1, 1, 1>>)
             dm == StableMesh(<<xdivs, 1, 1>>, <<ratio, 1, 1>>, L, 1,
                              Scaled(WrapRadius, <<1, 1, 1>>))
         IN  InitCalls(<<[double_mesh |-> dm, cell1_tuple |-> <<0, xdivs>>]>>)

Init ==
    \/ InitWhole
    \/ InitSplit
    \/ InitResorted
    \/ InitAnyRange
    \/ InitOneCell
    \/ InitWrap

Spec == Init /\ [][Next]_vars

----------------------------------------------------------------------------
(* Properties *)

Abs(v) == IF v < 0 THEN -v ELSE v

\* how many periods away an image is looked for
ImageReach == 2

Calls == DOMAIN returned

\* the cell range contains a cell id that the primary grid does not have
ReachesOutside(t, n) == t[1] < t[2] /\ (t[1] < 0 \/ t[2] > n)

\* primary cell of the point the caller supplied at index k
Cell1Of(k, dm) == CellIdOf(x1in[k], y1in[k], z1in[k], dm.mesh1)

InCells(k, r) ==
    Cell1Of(k, r.double_mesh) \in r.cell1_tuple[1]..(r.cell1_tuple[2] - 1)

\* the search lengths reach at least as far as the radius
SearchCovers(dm) ==
    /\ dm.search_xlength >= Abs(rsmooth)
    /\ dm.search_ylength >= Abs(rsmooth)
    /\ dm.search_zlength >= Abs(rsmooth)

\* the images of secondary point n that lie within the radius of primary point k
ImagesInRange(k, n, dm) ==
    LET reach == IF dm.PBCs = 1 THEN (-ImageReach)..ImageReach ELSE {0} IN
    {s \in reach \X reach \X reach :
        LET ex == x1in[k] - (x2in[n] + s[1] * dm.xperiod)
            ey == y1in[k] - (y2in[n] + s[2] * dm.yperiod)
            ez == z1in[k] - (z2in[n] + s[3] * dm.zperiod)
        IN  ex * ex + ey * ey + ez * ez < rsmooth * rsmooth}

WeightInRange(k, dm) ==
    SumOver([n \in DOMAIN x2in |-> weights2in[n] * Cardinality(ImagesInRange(k, n, dm))],
            DOMAIN x2in)

\* C1: for every primary point of a processed cell, the returned weight sum is
\* the sum of the weights of the secondary points or periodic images within the
\* radius, each taken once.
C1_EachInRangeImageOnce ==
    \A c \in Calls :
        LET r == returned[c] IN
        (~ReachesOutside(r.cell1_tuple, r.double_mesh.mesh1.ncells)
            /\ SearchCovers(r.double_mesh))
        => \A k \in DOMAIN x1in :
              InCells(k, r) => r.sum_weights[k] = WeightInRange(k, r.double_mesh)

OneCell ==
    /\ DOMAIN x1in = {0} /\ DOMAIN x2in = {0}
    /\ x1in[0] = 0 /\ y1in[0] = 0 /\ z1in[0] = 0
    /\ x2in[0] = 1 /\ y2in[0] = 0 /\ z2in[0] = 0
    /\ weights2in[0] = 2 /\ rsmooth = 2
    /\ PBCs = 0 /\ Ncell1 = 1 /\ double_mesh.mesh2.ncells = 1

\* C2: without periodicity and with one cell in each grid, a primary point at
\* (0,0,0) and a secondary point at (1,0,0) of weight 2 within radius 2 give
\* the weight sum 2 and the tensor [[2,0,0],[0,0,0],[0,0,0]], whatever the
\* number of covering steps.
C2_OneCellScenario ==
    OneCell =>
        \A c \in Calls :
            /\ returned[c].sum_weights[0] = 2
            /\ returned[c].tensor[0] = [Zeros3x3 EXCEPT ![0][0] = 2]

Wrap ==
    /\ DOMAIN x1in = {0} /\ DOMAIN x2in = {0}
    /\ x1in[0] = WrapX1 /\ x2in[0] = WrapX2 /\ weights2in[0] = 1
    /\ rsmooth = WrapRadius /\ PBCs = 1 /\ xperiod = WrapPeriod

\* C3: with periodicity, a secondary cell reached at an unwrapped index below 0
\* is shifted by -period and one reached at or above num_divs by +period; for
\* period 10, a primary point at x = 0.5 and a secondary point at x = 9.6 of
\* weight 1 within radius 1, the pair that is accumulated has separation 0.9
\* and the weight sum is 1.
C3_WrappedSeparation ==
    /\ (PBCs = 1 /\ pc = "pair") =>
          /\ x2shift = (IF nonPBC_ix2 < 0 THEN -xperiod
                        ELSE IF nonPBC_ix2 >= num_x2divs THEN xperiod ELSE 0)
          /\ y2shift = (IF nonPBC_iy2 < 0 THEN -yperiod
                        ELSE IF nonPBC_iy2 >= num_y2divs THEN yperiod ELSE 0)
          /\ z2shift = (IF nonPBC_iz2 < 0 THEN -zperiod
                        ELSE IF nonPBC_iz2 >= num_z2divs THEN zperiod ELSE 0)
    /\ Wrap =>
          /\ (dsq # 0 /\ dsq < rsmooth * rsmooth) =>
                dx = (WrapX1 + WrapPeriod) - WrapX2
          /\ \A c \in Calls :
                /\ returned[c].sum_weights[0] = 1
                /\ returned[c].tensor[0][0][0] =
                      ((WrapX1 + WrapPeriod) - WrapX2) * ((WrapX1 + WrapPeriod) - WrapX2)

C3_Witness ==
    /\ Wrap
    /\ num_x2divs > 1
    /\ returned # << >>
    /\ returned[1].sum_weights[0] = 1
    /\ x2in[0] - x1in[0] > rsmooth

AddTensor(a, b) == [p \in 0..2 |-> [q \in 0..2 |-> a[p][q] + b[p][q]]]

\* returned holds the runs on [0, m), on [m, total) and on [0, total)
SplitRuns ==
    /\ Len(returned) = 3
    /\ returned[1].double_mesh = returned[3].double_mesh
    /\ returned[2].double_mesh = returned[3].double_mesh
    /\ returned[1].cell1_tuple[1] = 0
    /\ returned[1].cell1_tuple[2] = returned[2].cell1_tuple[1]
    /\ returned[2].cell1_tuple[2] = returned[3].double_mesh.mesh1.ncells
    /\ returned[3].cell1_tuple = <<0, returned[3].double_mesh.mesh1.ncells>>

\* C4: the arrays of the runs on [0, m) and on [m, total), added element by
\* element, are the arrays of the run on [0, total); and a run leaves the
\* entries of the primary points whose cell is outside its range at zero.
C4_RangePartitionAdditivity ==
    /\ SplitRuns =>
          \A k \in DOMAIN x1in :
              /\ returned[1].sum_weights[k] + returned[2].sum_weights[k]
                    = returned[3].sum_weights[k]
              /\ AddTensor(returned[1].tensor[k], returned[2].tensor[k])
                    = returned[3].tensor[k]
    /\ \A c \in Calls :
          LET r == returned[c] IN
          ~ReachesOutside(r.cell1_tuple, r.double_mesh.mesh1.ncells) =>
              \A k \in DOMAIN x1in :
                  ~InCells(k, r) => (r.sum_weights[k] = 0 /\ r.tensor[k] = Zeros3x3)

C4_Witness ==
    /\ SplitRuns
    /\ returned[1].cell1_tuple[2] > 0
    /\ returned[1].cell1_tuple[2] < returned[3].double_mesh.mesh1.ncells
    /\ \E k \in DOMAIN x1in : returned[1].sum_weights[k] # 0
    /\ \E k \in DOMAIN x1in : returned[2].sum_weights[k] # 0

\* two double meshes that differ at most in the sort of their points
SameUpToSort(dm, dn) ==
    [dm EXCEPT !.mesh1.idx_sorted = << >>, !.mesh2.idx_sorted = << >>]
        = [dn EXCEPT !.mesh1.idx_sorted = << >>, !.mesh2.idx_sorted = << >>]

Identity(p) == [k \in DOMAIN p |-> k]

\* C5: the returned arrays are indexed by the caller's order of sample 1: two
\* runs on the same samples and range whose grids sort the points differently,
\* one of them possibly not reordering at all, return the same arrays.
C5_CallerOrder ==
    \A c, d \in Calls :
        (/\ SameUpToSort(returned[c].double_mesh, returned[d].double_mesh)
         /\ returned[c].cell1_tuple = returned[d].cell1_tuple)
        => /\ returned[c].sum_weights = returned[d].sum_weights
           /\ returned[c].tensor = returned[d].tensor

C5_Witness ==
    /\ Len(returned) = 2
    /\ SameUpToSort(returned[1].double_mesh, returned[2].double_mesh)
    /\ LET p == returned[1].double_mesh.mesh1.idx_sorted
           q == returned[2].double_mesh.mesh1.idx_sorted
       IN  /\ p = Identity(p)
           /\ unsorting_indices(q) # q
    /\ returned[1].double_mesh.mesh2.idx_sorted # returned[2].double_mesh.mesh2.idx_sorted
    /\ \A k, n \in DOMAIN x1in :
          k # n => returned[2].sum_weights[k] # returned[2].sum_weights[n]

\* C6: without periodicity no secondary cell is paired through an unwrapped
\* index outside [0, num_divs): such an index is skipped, not wrapped.
C6_NonPeriodicSkipsOutside ==
    (PBCs = 0 /\ pc = "pair") =>
        /\ nonPBC_ix2 \in 0..(num_x2divs - 1)
        /\ nonPBC_iy2 \in 0..(num_y2divs - 1)
        /\ nonPBC_iz2 \in 0..(num_z2divs - 1)

\* C7: a cell range that reaches outside [0, total_primary_cells) is rejected:
\* the engine neither reads cell1_indices outside [0, ncells1] (which kills it
\* or makes it process a cell the grid does not have) nor runs to a normal
\* return.
C7_OutOfExtentRejected ==
    /\ pc \in {"cell2", "pair"} => icell1 \in 0..(Ncell1 - 1)
    /\ pc # "killed"
    /\ \A c \in Calls :
          ~ReachesOutside(returned[c].cell1_tuple, returned[c].double_mesh.mesh1.ncells)

\* C8: a call with a negative smoothing radius returns no arrays and
\* accumulates no pair.
C8_NegativeRadiusRejected ==
    rsmooth < 0 =>
        /\ returned = << >>
        /\ \A k \in DOMAIN sum_weights : sum_weights[k] = 0

Symmetric(t) == t[0][1] = t[1][0] /\ t[0][2] = t[2][0] /\ t[1][2] = t[2][1]

\* C9: after every pair that is accumulated, and in the arrays that are
\* returned, the tensor of every primary point is symmetric.
C9_Symmetry ==
    /\ \A k \in DOMAIN inertia_tensor : Symmetric(inertia_tensor[k])
    /\ \A c \in Calls : \A k \in DOMAIN returned[c].tensor :
          Symmetric(returned[c].tensor[k])

C9_Witness ==
    /\ pc = "pair"
    /\ dsq < rsmooth * rsmooth
    /\ dx * dy # 0 /\ dx * dz # 0 /\ dy * dz # 0
    /\ dx * dy # dx * dz /\ dx * dz # dy * dz
    /\ \E k \in DOMAIN inertia_tensor :
          /\ inertia_tensor[k][0][1] # 0
          /\ inertia_tensor[k][0][1] # inertia_tensor[k][0][2]
          /\ inertia_tensor[k][0][2] # inertia_tensor[k][1][2]

\* C10: the coordinate decoded from a primary cell id of the grid lies in the
\* grid and flattens back to the id; every wrapped secondary coordinate lies in
\* the secondary grid, so that both reads of cell2_indices are inside it.
C10_IndicesInBounds ==
    /\ (pc \in {"cell2", "pair"} /\ icell1 \in 0..(Ncell1 - 1)) =>
          /\ ix1 \in 0..(num_x1divs - 1)
          /\ iy1 \in 0..(num_y1divs - 1)
          /\ iz1 \in 0..(num_z1divs - 1)
          /\ ix1 * num_y1divs * num_z1divs + iy1 * num_z1divs + iz1 = icell1
    /\ ix2 \in 0..(num_x2divs - 1)
    /\ iy2 \in 0..(num_y2divs - 1)
    /\ iz2 \in 0..(num_z2divs - 1)
    /\ icell2 \in 0..(double_mesh.mesh2.ncells - 1)
    /\ DOMAIN cell2_indices = 0..double_mesh.mesh2.ncells
    /\ (pc = "pair") =>
          /\ ix2 = nonPBC_ix2 % num_x2divs
          /\ ifirst2 = cell2_indices[icell2]
          /\ ilast2 = cell2_indices[icell2 + 1]

C10_Witness ==
    /\ pc = "pair"
    /\ icell1 > 0
    /\ (nonPBC_ix2 < 0 \/ nonPBC_iy2 < 0 \/ nonPBC_iz2 < 0)
    /\ (nonPBC_ix2 >= num_x2divs \/ nonPBC_iy2 >= num_y2divs \/ nonPBC_iz2 >= num_z2divs)
    /\ icell2 > 0

====
